---- MODULE Spec2Model ----
(***************************************************************************)
(* Model of the Blinkit scraper (src/blinkit_scrap.py): the category       *)
(* parser, the listing scroll loop, the detail-page normaliser and the     *)
(* three-stage pipeline of main() with its two semaphore-gated task pools. *)
(*                                                                         *)
(* Strings the code inspects character by character (hrefs, anchor texts) *)
(* are sequences of one-character strings.  Python exceptions are result   *)
(* tags: a function's outcome is [tag |-> "return", val |-> v] or          *)
(* [tag |-> "raise", exc |-> kind].                                        *)
(***************************************************************************)
EXTENDS Integers, Sequences, FiniteSets, TLC

VARIABLES
  \* ---- parse_categories_html_v2, as a function under test
  html_arg,            \* the html_content argument: a sequence of anchors
  parse_ret,           \* its return value, NotCalled before the call
  \* ---- scrape_detailed_product_data, as a function under test
  pdp_arg,             \* [product_id, response]
  pdp_ret,             \* its outcome, NotCalled before the call
  \* ---- scrape_product_ids_from_plp_v15, one call on one page
  sc_pc,               \* the await the call is at
  scroll_attempts,
  previous_scroll_height,
  scroll_height,       \* the page: #plpContainer's scrollHeight
  cards_loaded,        \* the page: product cards in the container
  scrolls_issued,      \* the page: scrollTo commands received
  last_measured,       \* the page: the scrollHeight it last reported (line 203)
  banner,              \* the error banner the call saw: none, before, during
  ready_waits,         \* waits for the first card made so far (line 189)
  handled,             \* the except clause of line 245 has run
  sc_ret,              \* the call's outcome, NotCalled before it ends
  \* ---- main() and its two task pools
  main_pc,             \* where main() is
  end_cause,           \* why main() ended, "" while it runs
  context,             \* the persistent browser context: none, open, closed, stopped
  pages_opened,        \* pages the context has created so far
  setup,               \* how handle_initial_load_and_location_v16 ended
  html_content,
  subcategory_urls,
  all_categorized_product_ids,   \* dict url -> {name, pids}, in insertion order
  total_unique_pids_overall,
  pids_file,           \* CATEGORIZED_PIDS_FILE on disk
  sem_plp,             \* semaphore_plp's free slots
  plp,                 \* the listing tasks, one per entry of subcategory_urls
  product_ids_list,
  sem_pdp,             \* semaphore_pdp's free slots
  pdp,                 \* the detail tasks, one per entry of product_ids_list
  fetch_count,         \* calls of scrape_detailed_product_data per identifier
  all_detailed_product_data,
  out_file             \* FULL_PRODUCT_DATA_FILE on disk

parseVars  == <<html_arg, parse_ret>>
detailVars == <<pdp_arg, pdp_ret>>
scrollVars == <<sc_pc, scroll_attempts, previous_scroll_height, scroll_height,
                cards_loaded, scrolls_issued, last_measured, banner, ready_waits, handled, sc_ret>>
mainVars   == <<main_pc, end_cause, context, pages_opened, setup, html_content, subcategory_urls,
                all_categorized_product_ids, total_unique_pids_overall, pids_file,
                sem_plp, plp, product_ids_list, sem_pdp, pdp, fetch_count,
                all_detailed_product_data, out_file>>
vars == <<parseVars, detailVars, scrollVars, mainVars>>

NotCalled == [tag |-> "not_called"]

Return(v) == [tag |-> "return", val |-> v]
Raise(e)  == [tag |-> "raise", exc |-> e]

\* ---------------------------------------------------------------------
\* Bounds of the model
\* ---------------------------------------------------------------------
MaxAnchors == 3          \* anchors in a categories page
MaxVariants == 2         \* entries of a variants_info collection
MaxHeight == 71          \* largest scrollHeight the container reaches
PoolCategories == 6      \* listing tasks of the pool specification
PoolIdentifiers == 11    \* detail tasks of the pool specification
MaxNutritionLines == 3   \* lines of a nutrition text

\* ---------------------------------------------------------------------
\* Configuration (lines 17-19)
\* ---------------------------------------------------------------------
MAX_PLP_SCROLL_ATTEMPTS == 70
PLP_CONCURRENCY == 5
PDP_CONCURRENCY == 10

\* ---------------------------------------------------------------------
\* Character-level string helpers (str.startswith, str.strip, +)
\* ---------------------------------------------------------------------
StartsWith(s, p) == Len(s) >= Len(p) /\ SubSeq(s, 1, Len(p)) = p

RECURSIVE LStrip(_)
LStrip(s) == IF s # <<>> /\ Head(s) = " " THEN LStrip(Tail(s)) ELSE s

RECURSIVE RStrip(_)
RStrip(s) == IF s # <<>> /\ s[Len(s)] = " " THEN RStrip(SubSeq(s, 1, Len(s) - 1)) ELSE s

Strip(s) == RStrip(LStrip(s))

\* A Python dict keeps insertion order: a sequence of [key, val] without
\* repeated keys.
DictHas(d, k) == \E i \in DOMAIN d : d[i].key = k
DictGet(d, k) == d[CHOOSE i \in DOMAIN d : d[i].key = k].val
DictSet(d, k, v) ==
  IF DictHas(d, k)
  THEN [i \in DOMAIN d |-> IF d[i].key = k THEN [key |-> k, val |-> v] ELSE d[i]]
  ELSE Append(d, [key |-> k, val |-> v])

\* ---------------------------------------------------------------------
\* parse_categories_html_v2
\* ---------------------------------------------------------------------
base_url == <<"h","t","t","p","s",":","/","/","b","l","i","n","k","i","t",".","c","o","m">>

CnPrefix == <<"/","c","n","/">>

\* hrefs and texts an anchor of the page may carry
Hrefs == { <<"/","c","n","/","1">>, <<"/","c","n","/","2">>,
           <<"/","p","/","1">>, <<"c","n","/","1">> }
Texts == { <<"A">>, <<" ","A"," ">>, <<"B">> }
Anchors == [href : Hrefs, text : Texts]

RECURSIVE SeqsUpTo(_, _)
SeqsUpTo(S, n) == IF n = 0 THEN { <<>> }
                  ELSE LET shorter == SeqsUpTo(S, n - 1)
                       IN  shorter \cup { Append(s, x) : s \in { t \in shorter : Len(t) = n - 1 }, x \in S }

HtmlInputs == SeqsUpTo(Anchors, MaxAnchors)

\* soup.select('a[href^="/cn/"]')
SelectCnLinks(html) == SelectSeq(html, LAMBDA a : StartsWith(a.href, CnPrefix))

\* the absolute URL built for one link (line 56)
SubcategoryUrl(relative_url) ==
  IF StartsWith(relative_url, <<"/">>) THEN base_url \o relative_url ELSE relative_url

\* the list built by the for loop (lines 52-59)
RECURSIVE SubcategoriesList(_)
SubcategoriesList(links) ==
  IF links = <<>> THEN <<>>
  ELSE LET link == Head(links)
           rest == SubcategoriesList(Tail(links))
       IN  IF link.href # <<>>
           THEN <<[name |-> Strip(link.text), url |-> SubcategoryUrl(link.href)]>> \o rest
           ELSE rest

\* list({subcat['url']: subcat for subcat in l}.values()): a dict keeps the
\* position of a key's first insertion and the value of its last
DictValuesByUrl(l) ==
  LET firsts == { i \in DOMAIN l : \A j \in 1..(i - 1) : l[j].url # l[i].url }
      last(u) == CHOOSE i \in DOMAIN l :
                   l[i].url = u /\ \A j \in (i + 1)..Len(l) : l[j].url # u
      F[k \in 0..Len(l)] ==
        IF k = 0 THEN <<>>
        ELSE IF k \in firsts THEN Append(F[k - 1], l[last(l[k].url)]) ELSE F[k - 1]
  IN  F[Len(l)]

NoDedup(l) == l

UniqueSubcategories(l) == DictValuesByUrl(l)

parse_categories_html_v2(html) ==
  LET subcategory_links == SelectCnLinks(html)
  IN  IF subcategory_links = <<>> THEN <<>>
      ELSE UniqueSubcategories(SubcategoriesList(subcategory_links))

\* ---- the parser under test
ParseInit == /\ html_arg \in HtmlInputs
             /\ parse_ret = NotCalled

CallParse == /\ parse_ret = NotCalled
             /\ parse_ret' = Return(parse_categories_html_v2(html_arg))
             /\ UNCHANGED <<html_arg, detailVars, scrollVars, mainVars>>

\* ---------------------------------------------------------------------
\* scrape_detailed_product_data
\* ---------------------------------------------------------------------
\* JSON values, and the Python values made from them, carry their type
JAbsent  == [t |-> "absent"]              \* a key the object does not carry
JNull    == [t |-> "null"]                \* null / None
JStr(s)  == [t |-> "str", v |-> s]
JList(l) == [t |-> "list", v |-> l]
JText(chars) == [t |-> "text", v |-> chars]   \* a string read character by character

\* Python truthiness
Truthy(j) == CASE j.t \in {"absent", "null"} -> FALSE
               [] j.t = "str"  -> j.v # ""
               [] j.t = "list" -> j.v # <<>>
               [] j.t = "text" -> j.v # <<>>
               [] OTHER        -> TRUE

\* a or b
PyOr(a, b) == IF Truthy(a) THEN a ELSE b

\* dict.get(key) / dict.get(key, default): a missing key gives None / default
Get(j) == IF j = JAbsent THEN JNull ELSE j
GetOr(j, default) == IF j = JAbsent THEN default ELSE j

\* One entry of variants_info.  name stands for every field the record
\* copies with variant.get (group_id, name, brand, unit, price, mrp,
\* inventory); attribute_collection is missing, null, or a list.
Variants == [t : {"obj"},
             id : {JAbsent, JStr(""), JStr("7")},
             product_id : {JAbsent, JStr("8")},
             name : {JStr("A"), JStr("B")},
             attribute_collection : {JAbsent, JNull}]

\* the parsed PRELOADED_STATE: JSON that is no object, or an object with
\* the two values found under data.ui.pdp.rawData.data
States == { [t |-> "list"] } \cup
          [t : {"obj"},
           variants_info : {JAbsent} \cup { JList(l) : l \in SeqsUpTo(Variants, MaxVariants) },
           product : {JAbsent} \cup { v \in Variants : v.id = JStr("7") /\ v.name = JStr("A") }]

Malformed == [t |-> "malformed"]          \* text json.loads rejects

PridUrl(product_id) == <<"prn", "product", "prid", product_id>>
HomeUrl == <<"home">>

\* what requests.get of the product URL meets
Responses(product_id) ==
       { [net |-> n, url |-> HomeUrl, script |-> "absent", json |-> Malformed]
           : n \in {"connection_error", "http_error"} }
  \cup { [net |-> "ok", url |-> HomeUrl, script |-> "found", json |-> Malformed],
         [net |-> "ok", url |-> PridUrl(product_id), script |-> "absent", json |-> Malformed],
         [net |-> "ok", url |-> PridUrl(product_id), script |-> "found", json |-> Malformed] }
  \cup { [net |-> "ok", url |-> PridUrl(product_id), script |-> "found", json |-> st]
           : st \in States }

\* '/prid/' in response.url
HasPridMarker(url) == \E i \in 1..(Len(url) - 1) : url[i] = "prid"

\* variant.get('id') or variant.get('product_id') or product_id  (line 290)
OwnIdOnly(variant, product_id) == PyOr(Get(variant.id), Get(variant.product_id))

VariantProductId(variant, product_id) ==
  PyOr(Get(variant.id), PyOr(Get(variant.product_id), JStr(product_id)))

\* str.strip() of a text with line breaks: blanks and line breaks go
Whitespace == {" ", "\n"}

RECURSIVE PyLStrip(_)
PyLStrip(s) == IF s # <<>> /\ Head(s) \in Whitespace THEN PyLStrip(Tail(s)) ELSE s

RECURSIVE PyRStrip(_)
PyRStrip(s) == IF s # <<>> /\ s[Len(s)] \in Whitespace
               THEN PyRStrip(SubSeq(s, 1, Len(s) - 1)) ELSE s

PyStrip(s) == PyRStrip(PyLStrip(s))

\* lines 313-316: the last attribute titled 'Nutrition Information' with a
\* truthy value gives nutrition_info, stripped; the other titles
\* (Ingredients, Key Features) fill their own fields the same way
RECURSIVE NutritionOfAttributes(_, _)
NutritionOfAttributes(attributes, current) ==
  IF attributes = <<>> THEN current
  ELSE LET attr == Head(attributes)
       IN  NutritionOfAttributes(Tail(attributes),
             IF Get(attr.title).t = "str" /\ attr.title.v = "Nutrition Information"
                /\ Truthy(Get(attr.value))
             THEN JText(PyStrip(attr.value.v))
             ELSE current)

\* lines 311-312: every collection of attribute_collection, in order
RECURSIVE NutritionOfCollections(_, _)
NutritionOfCollections(attribute_collections, current) ==
  IF attribute_collections = <<>> THEN current
  ELSE NutritionOfCollections(Tail(attribute_collections),
         NutritionOfAttributes(GetOr(Head(attribute_collections).attributes, JList(<<>>)).v,
                               current))

\* nutrition_text.split('\n'): always at least one line
RECURSIVE SplitLines(_)
SplitLines(text) ==
  IF \A i \in DOMAIN text : text[i] # "\n" THEN <<text>>
  ELSE LET i == CHOOSE k \in DOMAIN text :
                  text[k] = "\n" /\ \A j \in 1..(k - 1) : text[j] # "\n"
       IN  <<SubSeq(text, 1, i - 1)>> \o SplitLines(SubSeq(text, i + 1, Len(text)))

\* re.match(r'Per (.*)', line) and its group(1)
PerPrefix == <<"P","e","r"," ">>
MatchPer(line) == StartsWith(line, PerPrefix)
PerGroup(line) == SubSeq(line, Len(PerPrefix) + 1, Len(line))

ServingSizeKey == <<"s","e","r","v","i","n","g","_","s","i","z","e">>

\* ':' in line
HasColon(line) == \E i \in DOMAIN line : line[i] = ":"

\* a split at the last colon instead of the first
SplitAtLastColon(line) ==
  LET i == CHOOSE k \in DOMAIN line :
             line[k] = ":" /\ \A j \in (k + 1)..Len(line) : line[j] # ":"
  IN  [key |-> SubSeq(line, 1, i - 1), value |-> SubSeq(line, i + 1, Len(line))]

\* key, value = line.split(':', 1)
SplitOnce(line) ==
  LET i == CHOOSE k \in DOMAIN line :
             line[k] = ":" /\ \A j \in 1..(k - 1) : line[j] # ":"
  IN  [key |-> SubSeq(line, 1, i - 1), value |-> SubSeq(line, i + 1, Len(line))]

\* lines 331-334: the for loop over the lines left
RECURSIVE ParseNutritionLines(_, _)
ParseNutritionLines(lines, parsed_nutrition) ==
  IF lines = <<>> THEN parsed_nutrition
  ELSE LET line == Head(lines)
       IN  IF HasColon(line)
           THEN LET kv == SplitOnce(line)
                IN  ParseNutritionLines(Tail(lines),
                      DictSet(parsed_nutrition, PyStrip(kv.key), PyStrip(kv.value)))
           ELSE ParseNutritionLines(Tail(lines), parsed_nutrition)

\* lines 321-335: the mapping made of nutrition_text (None, or a string)
ParseNutrition(nutrition_text) ==
  IF ~Truthy(nutrition_text) THEN <<>>
  ELSE LET lines == SplitLines(nutrition_text.v)
           serving_size_line == lines[1]
       IN  IF MatchPer(serving_size_line)
           THEN ParseNutritionLines(Tail(lines),
                  <<[key |-> ServingSizeKey, val |-> PyStrip(PerGroup(serving_size_line))]>>)
           ELSE ParseNutritionLines(lines, <<>>)

\* lines 294-336 for one variant: the record, or the exception of iterating
\* a null attribute_collection
VariantData(variant, product_id, url) ==
  LET attribute_collections == GetOr(variant.attribute_collection, JList(<<>>))
  IN  IF attribute_collections = JNull
      THEN Raise("TypeError")
      ELSE Return([product_id  |-> VariantProductId(variant, product_id),
                   name        |-> Get(variant.name),
                   product_url |-> url,
                   nutrition_info |->
                     ParseNutrition(NutritionOfCollections(attribute_collections.v, JNull))])

\* the for loop of lines 289-336 over variants_info
RECURSIVE VariantsLoop(_, _, _, _)
VariantsLoop(variants_info, product_id, url, product_data) ==
  IF variants_info = <<>> THEN Return(product_data)
  ELSE LET variant == Head(variants_info)
       IN  IF ~Truthy(VariantProductId(variant, product_id))
           THEN VariantsLoop(Tail(variants_info), product_id, url, product_data)
           ELSE LET d == VariantData(variant, product_id, url)
                IN  IF d.tag = "raise" THEN d
                    ELSE VariantsLoop(Tail(variants_info), product_id, url,
                                      Append(product_data, d.val))

\* the try body, lines 264-337
DetailTryBody(product_id, response) ==
  IF response.net # "ok" THEN Raise("RequestException")
  ELSE IF ~HasPridMarker(response.url) THEN Return(<<>>)
  ELSE IF response.script = "absent" THEN Return(<<>>)
  ELSE IF response.json = Malformed THEN Raise("JSONDecodeError")
  ELSE IF response.json.t # "obj" THEN Raise("AttributeError")
  ELSE LET state_data == response.json
           variants_info == GetOr(state_data.variants_info, JList(<<>>))
           single_product_data == Get(state_data.product)
       IN  IF ~Truthy(variants_info)
           THEN IF Truthy(single_product_data)
                THEN VariantsLoop(<<single_product_data>>, product_id, response.url, <<>>)
                ELSE Return(<<>>)
           ELSE VariantsLoop(variants_info.v, product_id, response.url, <<>>)

\* the except clauses of lines 338-348; every one returns []
OnlyNamedExceptions(exc) ==
  IF exc \in {"RequestException", "JSONDecodeError"} THEN Return(<<>>) ELSE Raise(exc)

DetailExcept(exc) ==
  CASE exc = "RequestException" -> Return(<<>>)
    [] exc = "JSONDecodeError"  -> Return(<<>>)
    [] OTHER                    -> Return(<<>>)

scrape_detailed_product_data(product_id, response) ==
  LET body == DetailTryBody(product_id, response)
  IN  IF body.tag = "raise" THEN DetailExcept(body.exc) ELSE body

\* ---- the normaliser under test
ProductIdArgs == {"101", ""}

DetailInit == /\ pdp_arg \in { [product_id |-> p, response |-> r]
                                 : p \in ProductIdArgs, r \in UNION { Responses(q) : q \in ProductIdArgs } }
              /\ pdp_arg.response.url \in {HomeUrl, PridUrl(pdp_arg.product_id)}
              /\ pdp_ret = NotCalled

CallDetail == /\ pdp_ret = NotCalled
              /\ pdp_ret' = scrape_detailed_product_data(pdp_arg.product_id, pdp_arg.response)
              /\ UNCHANGED <<pdp_arg, parseVars, scrollVars, mainVars>>

\* ---- the nutrition parsing of the normaliser under test
\* lines a 'Nutrition Information' value may be made of
NutritionLines ==
  { <<"P","e","r"," ","1">>,                    \* a serving line
    <<"P","e","r","1",":","2">>,                \* no blank after Per
    <<"P","e","r"," ","1",":","2">>,            \* a serving line with a colon
    <<"k",":","v">>,
    <<" ","k"," ",":"," ","w"," ">>,            \* the same key, padded
    <<"k">>,                                    \* no colon
    <<"k",":","v",":","w">>,                    \* two colons
    <<>>,                                       \* an empty line
    <<":">>,
    <<"j",":","v">>,
    ServingSizeKey \o <<":","9">> }

RECURSIVE JoinLines(_)
JoinLines(lines) ==
  IF lines = <<>> THEN <<>>
  ELSE IF Len(lines) = 1 THEN lines[1]
  ELSE lines[1] \o <<"\n">> \o JoinLines(Tail(lines))

RawNutritionTexts == { JoinLines(l) : l \in SeqsUpTo(NutritionLines, MaxNutritionLines) }

\* a variant whose attribute_collection holds one collection with an
\* Ingredients attribute and a Nutrition Information attribute
NutritionVariant(raw) ==
  [t |-> "obj", id |-> JStr("7"), product_id |-> JAbsent, name |-> JStr("A"),
   attribute_collection |->
     JList(<<[t |-> "obj",
              attributes |->
                JList(<<[t |-> "obj", title |-> JStr("Ingredients"),
                         value |-> JText(<<"k",":","x">>)],
                        [t |-> "obj", title |-> JStr("Nutrition Information"),
                         value |-> JText(raw)]>>)]>>)]

NutritionInit ==
  /\ pdp_arg \in { [product_id |-> "101",
                    response |-> [net |-> "ok", url |-> PridUrl("101"), script |-> "found",
                                  json |-> [t |-> "obj", product |-> JAbsent,
                                            variants_info |-> JList(<<NutritionVariant(raw)>>)]]]
                     : raw \in RawNutritionTexts }
  /\ pdp_ret = NotCalled

\* ---------------------------------------------------------------------
\* scrape_product_ids_from_plp_v15
\* ---------------------------------------------------------------------
\* The cards of the listing in DOM order, by their id attribute ("": a card
\* without one); lazy loading shows a growing prefix of them.
CardIds == <<"p1", "", "p2">>

ScrollIdle == /\ sc_pc = "idle" /\ scroll_attempts = 0 /\ previous_scroll_height = -1
              /\ scroll_height = 0 /\ cards_loaded = 0 /\ scrolls_issued = 0
              /\ last_measured = -1 /\ banner = "none" /\ ready_waits = 0
              /\ handled = FALSE
              /\ sc_ret = NotCalled

\* lines 166-169: the call starts on a fresh page
ScrollInit == /\ sc_pc = "goto"
              /\ scroll_attempts = 0
              /\ previous_scroll_height = -1
              /\ scroll_height = 0
              /\ cards_loaded = 0
              /\ scrolls_issued = 0
              /\ last_measured = -1
              /\ banner = "none"
              /\ ready_waits = 0
              /\ handled = FALSE
              /\ sc_ret = NotCalled

\* line 176: page.goto; a failure goes to the handler of line 245
ScGoto ==
  /\ sc_pc = "goto"
  /\ \/ /\ sc_pc' = "banner0"
        /\ \E h \in 1..2, c \in 0..1 : scroll_height' = h /\ cards_loaded' = c
     \/ /\ sc_pc' = "handler"
        /\ UNCHANGED <<scroll_height, cards_loaded>>
  /\ UNCHANGED <<scroll_attempts, previous_scroll_height, scrolls_issued, sc_ret,
                 last_measured, banner, ready_waits, handled, parseVars, detailVars, mainVars>>

\* lines 179-182: an error banner before the loop; is_visible or the
\* screenshot may raise
ScBannerBeforeLoop ==
  /\ sc_pc = "banner0"
  /\ \/ sc_pc' = "ready" /\ sc_ret' = sc_ret /\ banner' = banner          \* not visible
     \/ sc_pc' = "done" /\ sc_ret' = Return({}) /\ banner' = "before"     \* visible: return set()
     \/ sc_pc' = "handler" /\ sc_ret' = sc_ret /\ banner' = "before"      \* visible, screenshot raised
     \/ sc_pc' = "handler" /\ sc_ret' = sc_ret /\ banner' = banner        \* is_visible raised
  /\ UNCHANGED <<scroll_attempts, previous_scroll_height, scroll_height, cards_loaded,
                 scrolls_issued, last_measured, ready_waits, handled, parseVars, detailVars, mainVars>>

\* a wait made again, up to three times
ReadyRetryThrice(waits) == waits < 3

\* lines 191-194: the except clause of the wait returns set() at once; the
\* wait is never made again
ReadyRetry(waits) == FALSE

\* lines 185-196: one wait for the container and the first card
ScWaitReady ==
  /\ sc_pc = "ready"
  /\ ready_waits' = ready_waits + 1
  /\ \/ /\ cards_loaded' \in 1..2                            \* the first card appeared
        /\ sc_pc' = "loop"
        /\ previous_scroll_height' = -1
        /\ sc_ret' = sc_ret
     \/ /\ IF ReadyRetry(ready_waits + 1)                    \* timeout
           THEN sc_pc' = "ready" /\ sc_ret' = sc_ret
           ELSE sc_pc' = "done" /\ sc_ret' = Return({})      \* return set()
        /\ UNCHANGED <<cards_loaded, previous_scroll_height>>
     \/ /\ sc_pc' = "handler" /\ sc_ret' = sc_ret            \* screenshot raised
        /\ UNCHANGED <<cards_loaded, previous_scroll_height>>
  /\ UNCHANGED <<scroll_attempts, scroll_height, scrolls_issued, last_measured, banner,
                 handled, parseVars, detailVars, mainVars>>

LoopConditionNoCap == TRUE

\* line 197
WhileCondition == scroll_attempts < MAX_PLP_SCROLL_ATTEMPTS

\* a banner that is logged without leaving the loop
BannerIgnored == "measure"

\* line 201: break, to the collection of line 233
BannerBreak == "collect"

\* lines 197-201: the while test and the banner check of an iteration
ScLoopHead ==
  /\ sc_pc = "loop"
  /\ IF WhileCondition
     THEN \/ sc_pc' = "measure" /\ banner' = banner                    \* banner not visible
          \/ sc_pc' = BannerBreak /\ banner' = "during"     \* banner visible: break
          \/ sc_pc' = "handler" /\ banner' = "during"                  \* visible, screenshot raised
          \/ sc_pc' = "handler" /\ banner' = banner                    \* is_visible raised
     ELSE sc_pc' = "collect" /\ banner' = banner
  /\ UNCHANGED <<scroll_attempts, previous_scroll_height, scroll_height, cards_loaded,
                 scrolls_issued, last_measured, ready_waits, sc_ret,
                 handled, parseVars, detailVars, mainVars>>

\* a loop that stops only when the container shrank
StallOnShrinkOnly(current_scroll_height) ==
  current_scroll_height < previous_scroll_height /\ scroll_attempts > 0

\* line 205
StallDetected(current_scroll_height) ==
  current_scroll_height = previous_scroll_height /\ scroll_attempts > 0

\* lines 203-209: measure the container and compare with the last measure
ScMeasure ==
  /\ sc_pc = "measure"
  /\ LET current_scroll_height == scroll_height
     IN  /\ last_measured' = current_scroll_height
         /\ IF StallDetected(current_scroll_height)
            THEN sc_pc' = "collect" /\ UNCHANGED previous_scroll_height
            ELSE sc_pc' = "scroll" /\ previous_scroll_height' = current_scroll_height
  /\ UNCHANGED <<scroll_attempts, scroll_height, cards_loaded, scrolls_issued, sc_ret,
                 banner, ready_waits, handled, parseVars, detailVars, mainVars>>

\* lines 211-228: scroll to the bottom, wait, count the cards; while the
\* task waits the page may load more cards and change its height
ScScroll ==
  /\ sc_pc = "scroll"
  /\ scrolls_issued' = scrolls_issued + 1
  /\ \E d \in {-1, 0, 1} :
       /\ scroll_height + d \in 1..MaxHeight
       /\ scroll_height' = scroll_height + d
  /\ \E c \in cards_loaded..Len(CardIds) : cards_loaded' = c
  /\ scroll_attempts' = scroll_attempts + 1
  /\ sc_pc' = "loop"
  /\ UNCHANGED <<previous_scroll_height, sc_ret, last_measured, banner, ready_waits,
                 handled, parseVars, detailVars, mainVars>>

\* lines 233-243: the ids of the cards now on the page
ScCollect ==
  /\ sc_pc = "collect"
  /\ sc_ret' = Return({ CardIds[i] : i \in 1..cards_loaded } \ {""})
  /\ sc_pc' = "done"
  /\ UNCHANGED <<scroll_attempts, previous_scroll_height, scroll_height, cards_loaded,
                 scrolls_issued, last_measured, banner, ready_waits,
                 handled, parseVars, detailVars, mainVars>>

\* lines 245-248: the handler's screenshot may raise out of the function
ScHandler ==
  /\ sc_pc = "handler"
  /\ \/ sc_ret' = Return({})
     \/ sc_ret' = Raise("Error")
  /\ sc_pc' = "done"
  /\ handled' = TRUE
  /\ UNCHANGED <<scroll_attempts, previous_scroll_height, scroll_height, cards_loaded,
                 scrolls_issued, last_measured, banner, ready_waits,
                 parseVars, detailVars, mainVars>>

\* ---------------------------------------------------------------------
\* main(): data
\* ---------------------------------------------------------------------
Pids == {"p1", "p2"}     \* identifiers the listings may show

NoFile == [t |-> "none"]
FileOf(v) == [t |-> "file", v |-> v]

HtmlNone == [t |-> "none"]
HtmlStr(anchors) == [t |-> "str", v |-> anchors]

\* list(v) of a dict v is the list of its keys, in insertion order; the
\* values of all_categorized_product_ids are dicts {'name': .., 'pids': ..}
PyListOfDict(v) == SelectSeq(<<"name", "pids">>, LAMBDA k : k \in DOMAIN v)

SerializeEntry(v) == JList(PyListOfDict(v))

\* save_pids_incrementally, lines 34-36: {k: list(v) for k, v in d.items()}
SerializableDict(categorized_pids_dict) ==
  [i \in DOMAIN categorized_pids_dict |->
     [key |-> categorized_pids_dict[i].key,
      val |-> SerializeEntry(categorized_pids_dict[i].val)]]

\* the loader of lines 414-418 on the loaded JSON: cat_info['name'] of a
\* list raises TypeError, which line 422 catches; entries before it stay
RECURSIVE LoadEntries(_, _)
LoadEntries(loaded_data, acc) ==
  IF loaded_data = <<>> THEN acc
  ELSE LET cat_url  == Head(loaded_data).key
           cat_info == Head(loaded_data).val
       IN  IF cat_info.t # "obj" THEN acc
           ELSE LoadEntries(Tail(loaded_data),
                            DictSet(acc, cat_url, [name |-> cat_info.name, pids |-> cat_info.pids]))

LoadCategorizedPids(file) == IF file = NoFile THEN <<>> ELSE LoadEntries(file.v, <<>>)

\* total_unique_pids_overall after the loader
PidsOf(d) == UNION { d[i].val.pids : i \in DOMAIN d }

\* a file a previous run left behind
LeftoverFile == FileOf(SerializableDict(
                  <<[key |-> base_url \o <<"/","c","n","/","1">>,
                     val |-> [name |-> <<"A">>, pids |-> {"p1"}]]>>))

\* list(total_unique_pids_overall): the set's elements, each once, in some order
ListsOfSet(S) == { l \in SeqsUpTo(S, Cardinality(S)) :
                     Len(l) = Cardinality(S) /\ { l[i] : i \in DOMAIN l } = S }

\* one identifier per listing that showed it, duplicates kept
RECURSIVE ConcatPids(_)
ConcatPids(d) ==
  IF d = <<>> THEN { <<>> }
  ELSE { h \o r : h \in ListsOfSet(Head(d).val.pids), r \in ConcatPids(Tail(d)) }

ProductIdsPerCategory(total, d) == ConcatPids(d)

\* line 485
ProductIdsLists(total, d) == ListsOfSet(total)

\* what the detail fetch of one identifier may meet in a run
PipelineResponses(product_id) ==
  { [net |-> "connection_error", url |-> HomeUrl, script |-> "absent", json |-> Malformed],
    [net |-> "ok", url |-> PridUrl(product_id), script |-> "found",
     json |-> [t |-> "obj", product |-> JAbsent,
               variants_info |-> JList(<<[t |-> "obj", id |-> JAbsent, product_id |-> JAbsent,
                                          name |-> JStr("A"), attribute_collection |-> JAbsent]>>)]],
    [net |-> "ok", url |-> PridUrl(product_id), script |-> "found", json |-> [t |-> "list"]] }

\* results of gather, concatenated by lines 498-499
RECURSIVE ExtendAll(_)
ExtendAll(results) == IF results = <<>> THEN <<>> ELSE Head(results) \o ExtendAll(Tail(results))

\* ---------------------------------------------------------------------
\* handle_initial_load_and_location_v16 (lines 70-162)
\* ---------------------------------------------------------------------
\* What the steps of one call meet: whether the launch, new_page, the
\* homepage navigation and its waits, the click of the location trigger,
\* the click of the first suggestion, the last waits, page.close() and
\* context.close() succeed, and what the homepage shows.
SetupEnvs == [launch : BOOLEAN, new_page : BOOLEAN, homepage : BOOLEAN,
              modal : {"input", "trigger", "neither"}, trigger_click : BOOLEAN,
              input_active : BOOLEAN, suggestion : BOOLEAN, settle : BOOLEAN,
              page_close : BOOLEAN, context_close : BOOLEAN]

SetupNotCalled == [path |-> "not_called", ret |-> "", context |-> "none", pages |-> 0]

SetupResult(path, ret, ctx, pages) ==
  [path |-> path, ret |-> ret, context |-> ctx, pages |-> pages]

\* lines 157-162: the outer handler closes the context it has and returns
\* None; context.close() is outside any try
SetupUnhandled(env, launched, pages) ==
  IF ~launched THEN SetupResult("launch_failed", "None", "none", pages)
  ELSE IF env.context_close THEN SetupResult("unhandled_error", "None", "closed", pages)
  ELSE SetupResult("context_close_raised", "raise", "open", pages)

\* lines 117-121 and 140-144: the inner handlers close the page and return
\* None; a failing page.close() goes to the outer handler
SetupInnerFailure(env, path, pages) ==
  IF env.page_close THEN SetupResult(path, "None", "open", pages)
  ELSE SetupUnhandled(env, TRUE, pages)

\* lines 129-155: the location query, the suggestion, the last page.close()
SetupLocation(env) ==
  IF env.input_active /\ ~env.suggestion THEN SetupInnerFailure(env, "suggestion_failed", 1)
  ELSE IF env.input_active /\ ~env.settle THEN SetupUnhandled(env, TRUE, 1)
  ELSE IF ~env.page_close THEN SetupUnhandled(env, TRUE, 1)
  ELSE SetupResult("ready", "context", "open", 1)

handle_initial_load_and_location_v16(env) ==
  IF ~env.launch THEN SetupUnhandled(env, FALSE, 0)
  ELSE IF ~env.new_page THEN SetupUnhandled(env, TRUE, 0)
  ELSE IF ~env.homepage THEN SetupUnhandled(env, TRUE, 1)
  ELSE IF env.modal = "trigger" /\ ~env.trigger_click
       THEN SetupInnerFailure(env, "modal_failed", 1)
  ELSE SetupLocation(env)

\* ---------------------------------------------------------------------
\* main(): up to the listing tasks
\* ---------------------------------------------------------------------
MainIdle == /\ main_pc = "idle" /\ end_cause = "" /\ context = "none"
            /\ pages_opened = 0 /\ setup = SetupNotCalled
            /\ html_content = HtmlNone /\ subcategory_urls = <<>>
            /\ all_categorized_product_ids = <<>> /\ total_unique_pids_overall = {}
            /\ pids_file = NoFile /\ sem_plp = 0 /\ plp = <<>>
            /\ product_ids_list = <<>> /\ sem_pdp = 0 /\ pdp = <<>>
            /\ fetch_count = [p \in Pids |-> 0]
            /\ all_detailed_product_data = <<>> /\ out_file = NoFile

\* the process before main(): the identifiers file of an earlier run may exist
MainInit == /\ main_pc = "start" /\ end_cause = "" /\ context = "none"
            /\ pages_opened = 0 /\ setup = SetupNotCalled
            /\ html_content = HtmlNone /\ subcategory_urls = <<>>
            /\ all_categorized_product_ids = <<>> /\ total_unique_pids_overall = {}
            /\ pids_file \in {NoFile, LeftoverFile}
            /\ sem_plp = 0 /\ plp = <<>>
            /\ product_ids_list = <<>> /\ sem_pdp = 0 /\ pdp = <<>>
            /\ fetch_count = [p \in Pids |-> 0]
            /\ all_detailed_product_data = <<>> /\ out_file = NoFile

End(cause) == main_pc' = "ended" /\ end_cause' = cause

\* lines 357-359: the identifiers file of an earlier run is removed
MainStart ==
  /\ main_pc = "start"
  /\ pids_file' = NoFile
  /\ main_pc' = "setup"
  /\ UNCHANGED <<end_cause, context, pages_opened, setup, html_content, subcategory_urls,
                 all_categorized_product_ids, total_unique_pids_overall, sem_plp, plp,
                 product_ids_list, sem_pdp, pdp, fetch_count, all_detailed_product_data,
                 out_file, parseVars, detailVars, scrollVars>>

\* lines 365-369: handle_initial_load_and_location_v16 gives the context,
\* or None and main() returns, or raises and main() leaves with it; leaving
\* the async with of line 363 stops playwright and a context still open
MainSetup ==
  /\ main_pc = "setup"
  /\ \E env \in SetupEnvs :
       LET r == handle_initial_load_and_location_v16(env)
       IN  /\ setup' = r
           /\ pages_opened' = r.pages
           /\ CASE r.ret = "context" ->
                     context' = r.context /\ main_pc' = "categories" /\ end_cause' = end_cause
                [] r.ret = "None" ->
                     /\ context' = IF r.context = "open" THEN "stopped" ELSE r.context
                     /\ End("no_context")
                [] OTHER ->
                     context' = "stopped" /\ main_pc' = "raised" /\ end_cause' = "no_context"
  /\ UNCHANGED <<html_content, subcategory_urls, all_categorized_product_ids,
                 total_unique_pids_overall, pids_file, sem_plp, plp, product_ids_list,
                 sem_pdp, pdp, fetch_count, all_detailed_product_data, out_file,
                 parseVars, detailVars, scrollVars>>

\* a page handed out again: the first page of the context
FirstPageOfContext(opened) == 1

\* context.new_page(): every call creates a page of its own
NewPageId(opened) == opened + 1

\* lines 377-393: the categories page.  new_page (line 377) and close (line
\* 388) are outside the try/except: their failure leaves main().
MainCategoriesPage ==
  /\ main_pc = "categories"
  /\ \/ /\ \E html \in HtmlInputs : html_content' = HtmlStr(html)
        /\ pages_opened' = NewPageId(pages_opened)
        /\ main_pc' = "parse" /\ UNCHANGED <<end_cause, context>>
     \/ /\ html_content' = HtmlNone                     \* goto, wait or content failed
        /\ pages_opened' = NewPageId(pages_opened)
        /\ context' = "closed" /\ End("no_html")
     \/ /\ main_pc' = "raised" /\ end_cause' = "categories_new_page"
        /\ context' = "stopped"                         \* leaving the async with of line 363
        /\ UNCHANGED <<html_content, pages_opened>>
     \/ /\ main_pc' = "raised" /\ end_cause' = "categories_page_close"
        /\ pages_opened' = NewPageId(pages_opened)
        /\ context' = "stopped"
        /\ UNCHANGED html_content
  /\ UNCHANGED <<setup, subcategory_urls, all_categorized_product_ids,
                 total_unique_pids_overall, pids_file, sem_plp, plp, product_ids_list,
                 sem_pdp, pdp, fetch_count, all_detailed_product_data, out_file,
                 parseVars, detailVars, scrollVars>>

\* a task waiting for its slot: no page yet (page_id 0)
NewTask == [pc |-> "wait", exc |-> "none", page |-> "none", page_id |-> 0,
            scrape_error |-> FALSE]

\* lines 395-473: parse the page; without categories main() returns;
\* otherwise the dict, the loader, the semaphore and the listing tasks
MainParse ==
  /\ main_pc = "parse"
  /\ LET parsed == parse_categories_html_v2(html_content.v)
     IN  /\ subcategory_urls' = parsed
         /\ IF parsed = <<>>
            THEN /\ context' = "closed" /\ End("no_categories")
                 /\ UNCHANGED <<all_categorized_product_ids, total_unique_pids_overall,
                                sem_plp, plp>>
            ELSE /\ all_categorized_product_ids' = LoadCategorizedPids(pids_file)
                 /\ total_unique_pids_overall' = PidsOf(LoadCategorizedPids(pids_file))
                 /\ sem_plp' = PLP_CONCURRENCY
                 /\ plp' = [t \in DOMAIN parsed |-> NewTask]
                 /\ main_pc' = "gather_plp"
                 /\ UNCHANGED <<end_cause, context>>
  /\ html_content' = HtmlNone                           \* not read again
  /\ UNCHANGED <<pages_opened, setup, pids_file, product_ids_list, sem_pdp, pdp, fetch_count,
                 all_detailed_product_data, out_file, parseVars, detailVars, scrollVars>>

\* ---------------------------------------------------------------------
\* scrape_plp_task_wrapper (lines 431-466), one task per category
\* ---------------------------------------------------------------------
mainRest == <<pages_opened, setup, html_content, subcategory_urls, product_ids_list, sem_pdp, pdp,
              fetch_count, all_detailed_product_data, out_file,
              parseVars, detailVars, scrollVars>>

SetTask(t, pc, exc, page) ==
  plp' = [plp EXCEPT ![t] = [@ EXCEPT !.pc = pc, !.exc = exc, !.page = page]]

\* line 437
AlreadyScraped(category_url) ==
  /\ DictHas(all_categorized_product_ids, category_url)
  /\ DictGet(all_categorized_product_ids, category_url).pids # {}

AcquireAlways(value) == TRUE

\* asyncio.Semaphore.acquire: a slot is taken only while one is free
CanAcquire(value) == value > 0

\* lines 432-441: take a slot; a category already scraped gives it back at
\* once, any other starts new_page()
PlpAcquire(t) ==
  /\ main_pc \in {"gather_plp", "raised"}
  /\ plp[t].pc = "wait"
  /\ CanAcquire(sem_plp)
  /\ IF AlreadyScraped(subcategory_urls[t].url)
     THEN SetTask(t, "done", "none", "none") /\ UNCHANGED sem_plp
     ELSE SetTask(t, "new_page", "none", "none") /\ sem_plp' = sem_plp - 1
  /\ UNCHANGED <<main_pc, end_cause, context, all_categorized_product_ids,
                 total_unique_pids_overall, pids_file, mainRest>>

\* line 441: new_page() is outside the try: its failure leaves the task
PlpNewPage(t) ==
  /\ plp[t].pc = "new_page"
  /\ \/ /\ plp' = [plp EXCEPT ![t] = [@ EXCEPT !.pc = "scrape", !.page = "open",
                                             !.page_id = NewPageId(pages_opened)]]
        /\ pages_opened' = pages_opened + 1
        /\ UNCHANGED sem_plp
     \/ /\ SetTask(t, "failed", "new_page", "none")
        /\ sem_plp' = sem_plp + 1
        /\ UNCHANGED pages_opened
  /\ UNCHANGED <<main_pc, end_cause, context, all_categorized_product_ids,
                 total_unique_pids_overall, pids_file, setup, html_content, subcategory_urls,
                 product_ids_list, sem_pdp, pdp, fetch_count, all_detailed_product_data,
                 out_file, parseVars, detailVars, scrollVars>>

\* lines 451-454: the handler records the category with no identifiers and
\* saves again; a failure of that save leaves the task after the finally
HandlerOutcome(t, dict, to_pc) ==
  LET cat   == subcategory_urls[t]
      reset == DictSet(dict, cat.url, [name |-> cat.name, pids |-> {}])
  IN  /\ all_categorized_product_ids' = reset
      /\ \/ /\ pids_file' = FileOf(SerializableDict(reset))
            /\ plp' = [plp EXCEPT ![t] = [@ EXCEPT !.pc = to_pc, !.scrape_error = TRUE]]
         \/ /\ pids_file' = pids_file
            /\ plp' = [plp EXCEPT ![t] = [@ EXCEPT !.pc = to_pc, !.exc = "checkpoint",
                                                   !.scrape_error = TRUE]]

\* lines 444-449: the scrape returned a set (any set of identifiers: the
\* scroll loop's result); the dict and the overall set take it, the file is
\* saved; a failing save goes to the handler
PlpScrapeReturns(t) ==
  /\ plp[t].pc = "scrape"
  /\ \E pids_for_this_category \in SUBSET Pids :
       LET cat     == subcategory_urls[t]
           updated == DictSet(all_categorized_product_ids, cat.url,
                              [name |-> cat.name, pids |-> pids_for_this_category])
       IN  /\ total_unique_pids_overall' = total_unique_pids_overall \cup pids_for_this_category
           /\ \/ /\ all_categorized_product_ids' = updated
                 /\ pids_file' = FileOf(SerializableDict(updated))
                 /\ SetTask(t, "close", "none", "open")
              \/ HandlerOutcome(t, updated, "handler")
  /\ UNCHANGED <<main_pc, end_cause, context, sem_plp, mainRest>>

\* a wrapper without the except clause: the exception stays pending
ScrapeErrorEscapes(t) ==
  /\ plp' = [plp EXCEPT ![t] = [@ EXCEPT !.pc = "close", !.exc = "scrape"]]
  /\ UNCHANGED <<all_categorized_product_ids, pids_file>>

\* line 451: except Exception catches what the scrape raised
WrapperExcept(t) == HandlerOutcome(t, all_categorized_product_ids, "handler")

\* line 444 raised (the scrape's own handler failed at its screenshot)
PlpScrapeRaises(t) ==
  /\ plp[t].pc = "scrape"
  /\ WrapperExcept(t)
  /\ UNCHANGED <<main_pc, end_cause, context, total_unique_pids_overall, sem_plp, mainRest>>

\* lines 455-460: the handler's screenshot and page dump, failures ignored
PlpHandlerDone(t) ==
  /\ plp[t].pc = "handler"
  /\ SetTask(t, "close", plp[t].exc, "open")
  /\ UNCHANGED <<main_pc, end_cause, context, all_categorized_product_ids,
                 total_unique_pids_overall, pids_file, sem_plp, mainRest>>

\* line 462: page.close() in the finally; its failure leaves the task
PlpClosePage(t) ==
  /\ plp[t].pc = "close"
  /\ \/ SetTask(t, "sleep", plp[t].exc, "closed") /\ UNCHANGED sem_plp
     \/ SetTask(t, "failed", "close", "open") /\ sem_plp' = sem_plp + 1
  /\ UNCHANGED <<main_pc, end_cause, context, all_categorized_product_ids,
                 total_unique_pids_overall, pids_file, mainRest>>

\* lines 464-466: the delay ends, the slot is given back; a pending
\* exception leaves the task now
PlpSleepDone(t) ==
  /\ plp[t].pc = "sleep"
  /\ SetTask(t, CASE plp[t].exc = "none"   -> "done"
                  [] plp[t].exc = "cancel" -> "cancelled"
                  [] OTHER                 -> "failed",
             plp[t].exc, plp[t].page)
  /\ sem_plp' = sem_plp + 1
  /\ UNCHANGED <<main_pc, end_cause, context, all_categorized_product_ids,
                 total_unique_pids_overall, pids_file, mainRest>>

Finished(task) == task.pc \in {"done", "failed", "cancelled"}

\* line 473, gather without return_exceptions: the first exception of a
\* task is raised in main() at once, the other tasks keep running; main()
\* leaves through the async with of line 363
MainGatherPlpRaises ==
  /\ main_pc = "gather_plp"
  /\ \E t \in DOMAIN plp : plp[t].pc = "failed"
  /\ main_pc' = "raised"
  /\ end_cause' = "listing_task"
  /\ context' = "stopped"
  /\ UNCHANGED <<all_categorized_product_ids, total_unique_pids_overall,
                 pids_file, sem_plp, plp, mainRest>>

\* line 514, asyncio.run: when main() has raised, every task still pending
\* is cancelled at its await.  Waiting for a slot, for new_page or for
\* page.close(), or in the delay, the task ends (giving back the slot it
\* holds); in the scrape or the handler, CancelledError passes the except
\* Exception clauses and the finally closes the page
RunCancelsTasks ==
  /\ main_pc = "raised"
  /\ plp' = [t \in DOMAIN plp |->
               CASE plp[t].pc \in {"wait", "new_page", "close", "sleep"}
                      -> [plp[t] EXCEPT !.pc = "cancelled", !.exc = "cancel"]
                 [] plp[t].pc \in {"scrape", "handler"}
                      -> [plp[t] EXCEPT !.pc = "close", !.exc = "cancel"]
                 [] OTHER -> plp[t]]
  /\ sem_plp' = sem_plp + Cardinality({ t \in DOMAIN plp :
                                          plp[t].pc \in {"new_page", "close", "sleep"} })
  /\ main_pc' = "ended"
  /\ UNCHANGED <<end_cause, context, all_categorized_product_ids,
                 total_unique_pids_overall, pids_file, mainRest>>

\* ---------------------------------------------------------------------
\* main(): the detail stage (lines 475-510)
\* ---------------------------------------------------------------------
plpRest == <<all_categorized_product_ids, total_unique_pids_overall, pids_file,
             sem_plp, plp, pages_opened, setup, html_content, subcategory_urls,
             parseVars, detailVars, scrollVars>>

\* lines 473-496: every listing task returned; the context is closed, the
\* overall set becomes a list, the detail tasks are created
MainStartDetailStage ==
  /\ main_pc = "gather_plp"
  /\ \A t \in DOMAIN plp : plp[t].pc = "done"
  /\ context' = "closed"
  /\ \E l \in ProductIdsLists(total_unique_pids_overall, all_categorized_product_ids) :
       /\ product_ids_list' = l
       /\ pdp' = [i \in DOMAIN l |-> [pc |-> "wait", result |-> <<>>]]
  /\ sem_pdp' = PDP_CONCURRENCY
  /\ main_pc' = "gather_pdp"
  /\ UNCHANGED <<end_cause, fetch_count, all_detailed_product_data, out_file, plpRest>>

\* lines 490-492: take a slot and hand the fetch to the executor
PdpAcquire(i) ==
  /\ main_pc = "gather_pdp"
  /\ pdp[i].pc = "wait"
  /\ CanAcquire(sem_pdp)
  /\ sem_pdp' = sem_pdp - 1
  /\ pdp' = [pdp EXCEPT ![i].pc = "fetch"]
  /\ UNCHANGED <<main_pc, end_cause, context, product_ids_list, fetch_count,
                 all_detailed_product_data, out_file, plpRest>>

\* lines 492-493: scrape_detailed_product_data ran in the executor; its
\* list is the task's result, an exception of it would leave the task
PdpFetchDone(i) ==
  /\ pdp[i].pc = "fetch"
  /\ \E detailed_data \in { scrape_detailed_product_data(product_ids_list[i], response)
                              : response \in PipelineResponses(product_ids_list[i]) } :
           pdp' = [pdp EXCEPT
                     ![i] = IF detailed_data.tag = "return"
                            THEN [pc |-> "done", result |-> detailed_data.val]
                            ELSE [pc |-> "failed", result |-> <<>>]]
  /\ fetch_count' = [fetch_count EXCEPT ![product_ids_list[i]] = @ + 1]
  /\ sem_pdp' = sem_pdp + 1
  /\ UNCHANGED <<main_pc, end_cause, context, product_ids_list,
                 all_detailed_product_data, out_file, plpRest>>

WriteAlways(data) == TRUE

\* line 504: if all_detailed_product_data
ShouldWrite(data) == data # <<>>

\* lines 496-510: gather returns the results in task order (or raises the
\* first exception of a task); the lists are concatenated and written when
\* there is at least one record
MainFinish ==
  /\ main_pc = "gather_pdp"
  /\ \/ \A i \in DOMAIN pdp : pdp[i].pc = "done"
     \/ \E i \in DOMAIN pdp : pdp[i].pc = "failed"
  /\ IF \E i \in DOMAIN pdp : pdp[i].pc = "failed"
     THEN /\ End("detail_task")
          /\ UNCHANGED <<all_detailed_product_data, out_file>>
     ELSE LET data == ExtendAll([i \in DOMAIN pdp |-> pdp[i].result])
          IN  /\ all_detailed_product_data' = data
              /\ out_file' = IF ShouldWrite(data) THEN FileOf(data) ELSE out_file
              /\ End("completed")
  /\ UNCHANGED <<context, product_ids_list, sem_pdp, pdp, fetch_count, plpRest>>

\* ---------------------------------------------------------------------
\* Specification of a run of main()
\* ---------------------------------------------------------------------
ParseIdle  == html_arg = <<>> /\ parse_ret = NotCalled
DetailIdle == pdp_arg = NotCalled /\ pdp_ret = NotCalled

Init == MainInit /\ ParseIdle /\ DetailIdle /\ ScrollIdle

Next == \/ MainStart \/ MainSetup \/ MainCategoriesPage \/ MainParse
        \/ \E t \in DOMAIN plp : PlpAcquire(t)
        \/ \E t \in DOMAIN plp : PlpNewPage(t)
        \/ \E t \in DOMAIN plp : PlpScrapeReturns(t)
        \/ \E t \in DOMAIN plp : PlpScrapeRaises(t)
        \/ \E t \in DOMAIN plp : PlpHandlerDone(t)
        \/ \E t \in DOMAIN plp : PlpClosePage(t)
        \/ \E t \in DOMAIN plp : PlpSleepDone(t)
        \/ MainGatherPlpRaises \/ RunCancelsTasks \/ MainStartDetailStage
        \/ \E i \in DOMAIN pdp : PdpAcquire(i)
        \/ \E i \in DOMAIN pdp : PdpFetchDone(i)
        \/ MainFinish

Spec == Init /\ [][Next]_vars

\* ---------------------------------------------------------------------
\* Specification of the two pools at their ceilings: a run of main() that
\* has come to
\*  - line 473 with PoolCategories categories, the first PLP_CONCURRENCY
\*    listing tasks in their delay of line 464 (they found no identifiers
\*    and saved), the others waiting for a slot; or
\*  - line 496 with PoolIdentifiers identifiers, the first PDP_CONCURRENCY
\*    detail tasks in their fetch, the others waiting for a slot.
\* ---------------------------------------------------------------------
Digit == <<"0","1","2","3","4","5","6","7","8","9">>
PoolCategory(k) == [name |-> <<Digit[k + 1]>>,
                    url  |-> base_url \o CnPrefix \o <<Digit[k + 1]>>]
PoolPidNames == <<"q1","q2","q3","q4","q5","q6","q7","q8","q9","q10","q11","q12","q13","q14">>
PoolPid(k) == PoolPidNames[k]

PoolSavedDict == [k \in 1..PLP_CONCURRENCY |->
                    [key |-> PoolCategory(k).url,
                     val |-> [name |-> PoolCategory(k).name, pids |-> {}]]]

PoolInit ==
  /\ end_cause = "" /\ html_content = HtmlNone
  /\ setup = SetupResult("ready", "context", "open", 1)
  /\ all_detailed_product_data = <<>> /\ out_file = NoFile
  /\ total_unique_pids_overall = {}
  /\ \/ /\ main_pc = "gather_plp" /\ context = "open"
        /\ pages_opened = PLP_CONCURRENCY + 2
        /\ subcategory_urls = [k \in 1..PoolCategories |-> PoolCategory(k)]
        /\ all_categorized_product_ids = PoolSavedDict
        /\ pids_file = FileOf(SerializableDict(PoolSavedDict))
        /\ sem_plp = 0
        /\ plp = [t \in 1..PoolCategories |->
                    IF t <= PLP_CONCURRENCY
                    THEN [pc |-> "sleep", exc |-> "none", page |-> "closed",
                          page_id |-> t + 2, scrape_error |-> FALSE]
                    ELSE NewTask]
        /\ product_ids_list = <<>> /\ sem_pdp = 0 /\ pdp = <<>>
     \/ /\ main_pc = "gather_pdp" /\ context = "closed"
        /\ pages_opened = 2
        /\ subcategory_urls = <<>>
        /\ all_categorized_product_ids = <<>>
        /\ pids_file = NoFile
        /\ sem_plp = 0 /\ plp = <<>>
        /\ product_ids_list = [k \in 1..PoolIdentifiers |-> PoolPid(k)]
        /\ sem_pdp = 0
        /\ pdp = [i \in 1..PoolIdentifiers |->
                    [pc |-> IF i <= PDP_CONCURRENCY THEN "fetch" ELSE "wait",
                     result |-> <<>>]]
  /\ fetch_count = [p \in Pids \cup { PoolPid(k) : k \in 1..PoolIdentifiers } |-> 0]

SpecPoolInit == PoolInit /\ ParseIdle /\ DetailIdle /\ ScrollIdle
SpecPoolNext == \/ \E t \in DOMAIN plp : PlpAcquire(t)
                \/ \E t \in DOMAIN plp : PlpNewPage(t)
                \/ \E t \in DOMAIN plp : PlpScrapeReturns(t)
                \/ \E t \in DOMAIN plp : PlpScrapeRaises(t)
                \/ \E t \in DOMAIN plp : PlpHandlerDone(t)
                \/ \E t \in DOMAIN plp : PlpClosePage(t)
                \/ \E t \in DOMAIN plp : PlpSleepDone(t)
                \/ MainGatherPlpRaises \/ RunCancelsTasks \/ MainStartDetailStage
                \/ \E i \in DOMAIN pdp : PdpAcquire(i)
                \/ \E i \in DOMAIN pdp : PdpFetchDone(i)
                \/ MainFinish
SpecPool == SpecPoolInit /\ [][SpecPoolNext]_vars

\* ---------------------------------------------------------------------
\* Specifications of the functions under test
\* ---------------------------------------------------------------------
SpecParseInit == ParseInit /\ DetailIdle /\ ScrollIdle /\ MainIdle
SpecParseNext == CallParse
SpecParse == SpecParseInit /\ [][SpecParseNext]_vars

SpecDetailInit == DetailInit /\ ParseIdle /\ ScrollIdle /\ MainIdle
SpecDetailNext == CallDetail
SpecDetail == SpecDetailInit /\ [][SpecDetailNext]_vars

SpecNutritionInit == NutritionInit /\ ParseIdle /\ ScrollIdle /\ MainIdle
SpecNutritionNext == CallDetail
SpecNutrition == SpecNutritionInit /\ [][SpecNutritionNext]_vars

SpecScrollInit == ScrollInit /\ ParseIdle /\ DetailIdle /\ MainIdle
SpecScrollNext == \/ ScGoto \/ ScBannerBeforeLoop \/ ScWaitReady \/ ScLoopHead
                  \/ ScMeasure \/ ScScroll \/ ScCollect \/ ScHandler
SpecScroll == SpecScrollInit /\ [][SpecScrollNext]_vars

\* ---------------------------------------------------------------------
\* Claims about parse_categories_html_v2 (SpecParse)
\* ---------------------------------------------------------------------
Range(f) == { f[i] : i \in DOMAIN f }

CnHrefsOf(html) == { a.href : a \in { b \in Range(html) : StartsWith(b.href, CnPrefix) } }

\* C8: the parser returns (never raises) a list with at most one entry per
\* absolute URL; its URLs are exactly https://blinkit.com + href for the
\* '/cn/' anchors of the input, so identical hrefs collapse and different
\* hrefs with the same text stay distinct; no matching anchor gives [].
C8_ParserDedupByUrl ==
  parse_ret # NotCalled =>
    /\ parse_ret.tag = "return"
    /\ \A i, j \in DOMAIN parse_ret.val :
         parse_ret.val[i].url = parse_ret.val[j].url => i = j
    /\ { e.url : e \in Range(parse_ret.val) } = { base_url \o h : h \in CnHrefsOf(html_arg) }
    /\ Len(parse_ret.val) = Cardinality(CnHrefsOf(html_arg))
    /\ (CnHrefsOf(html_arg) = {} => parse_ret.val = <<>>)

\* three '/cn/' anchors, two of them with one href, two of them with one
\* text and different hrefs: two entries come back
C8_Witness ==
  /\ parse_ret # NotCalled
  /\ Len(html_arg) = 3
  /\ html_arg[1].href = html_arg[3].href
  /\ html_arg[1].href # html_arg[2].href
  /\ html_arg[1].text = html_arg[2].text
  /\ \A i \in 1..3 : StartsWith(html_arg[i].href, CnPrefix)
  /\ Len(parse_ret.val) = 2

\* ---------------------------------------------------------------------
\* Claims about scrape_detailed_product_data (SpecDetail)
\* ---------------------------------------------------------------------
\* the failure outcomes of one identifier, read off the response
NetworkFailure(r)  == r.net \in {"connection_error", "http_error"}
RedirectedAway(r)  == r.net = "ok" /\ ~(\E i \in 1..(Len(r.url) - 1) : r.url[i] = "prid")
MarkerAbsent(r)    == r.net = "ok" /\ r.script = "absent"
JsonUnparsable(r)  == r.net = "ok" /\ r.script = "found" /\ r.json = Malformed
NoProductData(r)   == /\ r.net = "ok" /\ r.script = "found" /\ r.json.t = "obj"
                      /\ r.json.variants_info \in {JAbsent, JList(<<>>)}
                      /\ r.json.product = JAbsent

FailureOutcome(r) == \/ NetworkFailure(r) \/ RedirectedAway(r) \/ MarkerAbsent(r)
                     \/ JsonUnparsable(r) \/ NoProductData(r)

\* C6: scrape_detailed_product_data never raises, and returns [] for a
\* network error or bad status, a final URL without /prid/, a missing
\* PRELOADED_STATE marker, unparsable JSON, and state with neither variants
\* nor a product object.
C6_DetailNeverRaises ==
  pdp_ret # NotCalled =>
    /\ pdp_ret.tag = "return"
    /\ FailureOutcome(pdp_arg.response) => pdp_ret.val = <<>>

C6_Witness ==
  /\ pdp_ret = Return(<<>>)
  /\ NoProductData(pdp_arg.response)
  /\ HasPridMarker(pdp_arg.response.url)

\* the variants collection the normaliser iterates, when the page gave one
HasVariants(r) == /\ r.net = "ok" /\ HasPridMarker(r.url) /\ r.script = "found"
                  /\ r.json.t = "obj" /\ r.json.variants_info.t = "list"
                  /\ r.json.variants_info.v # <<>>

HasOwnId(v) == \/ (v.id.t = "str" /\ v.id.v # "")
               \/ (v.product_id.t = "str" /\ v.product_id.v # "")

OwnId(v) == IF v.id.t = "str" /\ v.id.v # "" THEN v.id ELSE v.product_id

\* C7 as stated: at most N records, and a variant without identifier fields
\* of its own is never in the output
C7_Original ==
  (pdp_ret # NotCalled /\ HasVariants(pdp_arg.response)) =>
    LET l == pdp_arg.response.json.variants_info.v
    IN  /\ pdp_ret.tag = "return"
        /\ Len(pdp_ret.val) <= Len(l)
        /\ Len(pdp_ret.val) <= Cardinality({ i \in DOMAIN l : HasOwnId(l[i]) })

\* C7 amended: at most N records, in the variants' order.  A variant without
\* identifier fields of its own is emitted under the requested identifier
\* and dropped only when that identifier is empty too; the other variants
\* are still emitted.  If building the record of a kept variant raises
\* (a null attribute_collection), the whole result is [].
C7_VariantsInOrder ==
  (pdp_ret # NotCalled /\ HasVariants(pdp_arg.response)) =>
    LET l    == pdp_arg.response.json.variants_info.v
        pid  == pdp_arg.product_id
        kept == SelectSeq(l, LAMBDA v : HasOwnId(v) \/ pid # "")
        idOf(v) == IF HasOwnId(v) THEN OwnId(v) ELSE JStr(pid)
    IN  /\ pdp_ret.tag = "return"
        /\ Len(pdp_ret.val) <= Len(l)
        /\ IF \E i \in DOMAIN kept : kept[i].attribute_collection = JNull
           THEN pdp_ret.val = <<>>
           ELSE /\ Len(pdp_ret.val) = Len(kept)
                /\ \A i \in DOMAIN kept :
                     /\ pdp_ret.val[i].product_id = idOf(kept[i])
                     /\ pdp_ret.val[i].name = kept[i].name

\* two variants, the first without identifiers of its own, requested with an
\* empty identifier: the first is dropped, the second emitted
C7_Witness ==
  /\ pdp_ret # NotCalled
  /\ HasVariants(pdp_arg.response)
  /\ pdp_arg.product_id = ""
  /\ LET l == pdp_arg.response.json.variants_info.v
     IN  /\ Len(l) = 2
         /\ ~HasOwnId(l[1])
         /\ HasOwnId(l[2])
         /\ Len(pdp_ret.val) = 1
         /\ pdp_ret.val[1].name = l[2].name

\* ---------------------------------------------------------------------
\* Claims about the nutrition parsing (SpecNutrition)
\* ---------------------------------------------------------------------
\* the nutrition text the parsing reads (line 322), and its lines
NutritionTextOf(arg) ==
  PyStrip(arg.response.json.variants_info.v[1].attribute_collection.v[1].attributes.v[2].value.v)

LinesOf(text) ==
  LET breaks == { i \in DOMAIN text : text[i] = "\n" }
      starts == {1} \cup { i + 1 : i \in breaks }
      nth(n) == CHOOSE b \in starts : Cardinality({ c \in starts : c < b }) = n - 1
      stop(b) == CHOOSE e \in (breaks \cup {Len(text) + 1}) :
                   e >= b /\ \A f \in breaks : f >= b => e <= f
  IN  [n \in 1..Cardinality(starts) |-> SubSeq(text, nth(n), stop(nth(n)) - 1)]

\* the assignment a line stands for: [is, key, val]
AssignmentOf(lines, n) ==
  IF n = 1 /\ StartsWith(lines[1], <<"P","e","r"," ">>)
  THEN [is |-> TRUE, key |-> ServingSizeKey, val |-> PyStrip(SubSeq(lines[1], 5, Len(lines[1])))]
  ELSE IF \E i \in DOMAIN lines[n] : lines[n][i] = ":"
  THEN LET i == CHOOSE k \in DOMAIN lines[n] :
                  lines[n][k] = ":" /\ \A j \in 1..(k - 1) : lines[n][j] # ":"
       IN  [is |-> TRUE, key |-> PyStrip(SubSeq(lines[n], 1, i - 1)),
            val |-> PyStrip(SubSeq(lines[n], i + 1, Len(lines[n])))]
  ELSE [is |-> FALSE, key |-> <<>>, val |-> <<>>]

\* C11: the nutrition text is parsed line by line without error.  A first
\* line 'Per <serving>' gives serving_size its trimmed remainder and is not
\* split at a colon; every other line with a colon gives the trimmed text
\* before its first colon as key and the trimmed text after it as value; a
\* line without a colon gives nothing; the mapping has exactly the keys
\* given, each with the value of the last line that gave it.
C11_NutritionParsed ==
  pdp_ret # NotCalled =>
    /\ pdp_ret.tag = "return"
    /\ Len(pdp_ret.val) = 1
    /\ LET text  == NutritionTextOf(pdp_arg)
           d     == pdp_ret.val[1].nutrition_info
           lines == LinesOf(text)
           given == IF text = <<>> THEN {}
                    ELSE { n \in DOMAIN lines : AssignmentOf(lines, n).is }
       IN  /\ \A i, j \in DOMAIN d : d[i].key = d[j].key => i = j
           /\ { d[i].key : i \in DOMAIN d } = { AssignmentOf(lines, n).key : n \in given }
           /\ \A i \in DOMAIN d :
                LET last == CHOOSE n \in given :
                              /\ AssignmentOf(lines, n).key = d[i].key
                              /\ \A m \in given :
                                   AssignmentOf(lines, m).key = d[i].key => m <= n
                IN  d[i].val = AssignmentOf(lines, last).val

\* 'Per 1:2', then a line with two colons, then the same key padded: the
\* serving line is not split, the two-colon line is split at its first colon
\* and the later line's value replaces it
C11_Witness ==
  /\ pdp_ret # NotCalled
  /\ NutritionTextOf(pdp_arg) =
       <<"P","e","r"," ","1",":","2","\n","k",":","v",":","w","\n"," ","k"," ",":"," ","w">>
  /\ pdp_ret.val[1].nutrition_info =
       <<[key |-> ServingSizeKey, val |-> <<"1",":","2">>],
         [key |-> <<"k">>, val |-> <<"w">>]>>

\* ---------------------------------------------------------------------
\* Claims about the scroll loop (SpecScroll)
\* ---------------------------------------------------------------------
\* C1: the scroll loop ends after at most MAX_PLP_SCROLL_ATTEMPTS
\* iterations whatever heights are measured: neither the iteration count
\* nor the number of scroll commands exceeds the cap, and at the cap the
\* call leaves the loop.
C1_ScrollBounded ==
  /\ scroll_attempts <= MAX_PLP_SCROLL_ATTEMPTS
  /\ scrolls_issued <= MAX_PLP_SCROLL_ATTEMPTS
  /\ (scroll_attempts = MAX_PLP_SCROLL_ATTEMPTS => sc_pc \in {"loop", "collect", "done"})

\* a container that grew on each of the 70 measurements: the call returned
\* after exactly 70 scrolls
C1_Witness ==
  /\ sc_pc = "done"
  /\ sc_ret.tag = "return"
  /\ scrolls_issued = MAX_PLP_SCROLL_ATTEMPTS
  /\ scroll_height >= MAX_PLP_SCROLL_ATTEMPTS + 1

\* C12: the measurement of the first iteration never ends the loop; the
\* measurement of a later iteration ends it as soon as the height measured
\* equals the height measured in the iteration before, whatever the
\* container would do afterwards; once the loop has ended no scroll is
\* issued.
C12_StallStops ==
  [][ /\ (sc_pc = "measure" /\ scroll_attempts = 0) => sc_pc' = "scroll"
      /\ (sc_pc = "measure" /\ scroll_attempts > 0 /\ scroll_height = last_measured)
           => (sc_pc' = "collect" /\ scrolls_issued' = scrolls_issued)
      /\ sc_pc \in {"collect", "done"}
           => (sc_pc' \in {"collect", "done"} /\ scrolls_issued' = scrolls_issued)
    ]_vars

\* a container that grew for one cycle and paused at the second
\* measurement: the call ended after two scrolls with one card of three
C12_Witness ==
  /\ sc_pc = "done"
  /\ banner = "none"
  /\ scroll_attempts = 2 /\ scrolls_issued = 2
  /\ last_measured = scroll_height
  /\ cards_loaded = 1
  /\ sc_ret = Return({"p1"})

\* the call gave up on a category whose first card never appeared
GaveUpOnFirstCard == ready_waits >= 1 /\ cards_loaded = 0 /\ sc_pc = "done"

\* C14 as stated: the wait for the first card is retried, and the call
\* gives up only after several failed attempts
C14_Original == GaveUpOnFirstCard => ready_waits > 1

\* C14 amended: the wait for the container and the first card is made once
\* and never retried.  When it fails the call gives up on the category at
\* once, without a delay and without a scroll: it returns the empty set,
\* or, when the screenshots of lines 193 and 247 both fail, raises to the
\* wrapper.
C14_SingleWait ==
  /\ ready_waits <= 1
  /\ (ready_waits = 1 /\ cards_loaded = 0) =>
       /\ sc_pc \in {"handler", "done"}
       /\ scrolls_issued = 0 /\ scroll_attempts = 0
       /\ sc_pc = "done" => sc_ret \in {Return({}), Raise("Error")}

\* the first card did not appear: one wait, the empty set
C14_Witness ==
  /\ ready_waits = 1 /\ cards_loaded = 0
  /\ sc_pc = "done" /\ sc_ret = Return({})
  /\ banner = "none"

\* the identifiers of the cards on the page
CardsPresent == { CardIds[i] : i \in 1..cards_loaded } \ {""}

C2_ItemsIndependent ==
  /\ \A t \in DOMAIN plp : plp[t].pc # "cancelled"
  /\ \A i \in DOMAIN pdp : pdp[i].pc # "failed"
  /\ (/\ main_pc = "ended"
      /\ \E t, u \in DOMAIN plp : t # u /\ plp[t].pc = "failed" /\ plp[u].pc = "done")
       => end_cause = "completed"

EndedBeforeDetailStage ==
  main_pc \in {"raised", "ended"} /\ end_cause \notin {"completed", "detail_task"}

ObtainedContext == main_pc = "ended" /\ end_cause # "no_context"

\* C4 as stated: a run that obtained a context ends with the output file
\* holding exactly the records collected, an empty collection included
C4_Original == ObtainedContext => out_file = FileOf(all_detailed_product_data)

\* C4 amended: the output file is written only by a run that completes the
\* detail stage with at least one record, and then holds exactly the
\* records of the detail tasks in task order; a run that ends early, or
\* collects no record, writes no file.
C4_OutputFile ==
  /\ out_file # NoFile => main_pc = "ended" /\ end_cause = "completed"
  /\ (main_pc = "ended" /\ end_cause = "completed") =>
       /\ all_detailed_product_data = ExtendAll([i \in DOMAIN pdp |-> pdp[i].result])
       /\ out_file = IF all_detailed_product_data = <<>> THEN NoFile
                     ELSE FileOf(all_detailed_product_data)
  /\ (main_pc = "ended" /\ end_cause # "completed") => out_file = NoFile

\* every detail fetch failed: the run completed and wrote no file
C4_Witness ==
  /\ main_pc = "ended" /\ end_cause = "completed"
  /\ Len(product_ids_list) = 2
  /\ all_detailed_product_data = <<>>
  /\ out_file = NoFile

\* C9: the identifiers file read back by the loader of main() gives, for
\* every category whose listing task completed, its name and its exact set
\* of identifiers.
C9_FileRoundTrips ==
  \A t \in DOMAIN plp :
    plp[t].pc = "done" =>
      LET u      == subcategory_urls[t].url
          loaded == LoadCategorizedPids(pids_file)
      IN  /\ DictHas(loaded, u)
          /\ DictGet(loaded, u) = DictGet(all_categorized_product_ids, u)

\* what a file records: its categories, and the identifiers of one of them
RecordedCategories(file) ==
  IF file = NoFile THEN {} ELSE { file.v[i].key : i \in DOMAIN file.v }

RecordedPids(file, url) ==
  IF file = NoFile \/ ~DictHas(file.v, url) THEN {}
  ELSE LET entry == DictGet(file.v, url)
       IN  IF entry.t = "obj" THEN entry.pids ELSE {}

\* C13: every checkpoint of the listing stage is one whole write of the
\* file (no two writes in one step), and records a superset of what the
\* checkpoint before recorded: the categories of the file only grow, the
\* identifiers recorded for a category only grow, and the write records the
\* structure held in memory at that moment, so that the identifiers of a
\* completed category are in the file from its checkpoint on.
C13_CheckpointsGrow ==
  [][ (main_pc \in {"gather_plp", "raised"} /\ pids_file' # pids_file) =>
        /\ Cardinality({ t \in DOMAIN plp : plp'[t] # plp[t] }) = 1
        /\ RecordedCategories(pids_file) \subseteq RecordedCategories(pids_file')
        /\ \A u \in RecordedCategories(pids_file) :
             RecordedPids(pids_file, u) \subseteq RecordedPids(pids_file', u)
        /\ RecordedCategories(pids_file') =
             { all_categorized_product_ids'[i].key : i \in DOMAIN all_categorized_product_ids' }
        /\ \A i \in DOMAIN all_categorized_product_ids' :
             all_categorized_product_ids'[i].val.pids
               \subseteq RecordedPids(pids_file', all_categorized_product_ids'[i].key)
    ]_vars

\* the listing tasks that have opened a page
WithPage == { t \in DOMAIN plp : plp[t].page_id # 0 }

PagesApart ==
  /\ \A t, u \in WithPage : plp[t].page_id = plp[u].page_id => t = u
  /\ \A t \in DOMAIN plp :
       /\ plp[t].pc \in {"scrape", "handler", "close"}
            => (t \in WithPage /\ plp[t].page = "open")
       /\ t \notin WithPage => plp[t].page = "none"

C17_ContextClosedOnFailure ==
  (setup.ret = "None" /\ setup.path # "launch_failed") => setup.context = "closed"

\* C10: every identifier is fetched at most once in a run, the list of the
\* detail stage holds each discovered identifier once, and a completed run
\* has fetched each discovered identifier exactly once, a failed fetch
\* included.
C10_FetchedOnce ==
  /\ \A p \in DOMAIN fetch_count : fetch_count[p] <= 1
  /\ \A i, j \in DOMAIN product_ids_list :
       product_ids_list[i] = product_ids_list[j] => i = j
  /\ main_pc = "gather_pdp" =>
       { product_ids_list[i] : i \in DOMAIN product_ids_list } = total_unique_pids_overall
  /\ (main_pc = "ended" /\ end_cause = "completed") =>
       \A p \in DOMAIN fetch_count :
         fetch_count[p] = IF p \in total_unique_pids_overall THEN 1 ELSE 0

\* two categories both listed p1, its one fetch failed, the run completed
C10_Witness ==
  /\ main_pc = "ended" /\ end_cause = "completed"
  /\ Len(all_categorized_product_ids) = 2
  /\ \A i \in DOMAIN all_categorized_product_ids :
       "p1" \in all_categorized_product_ids[i].val.pids
  /\ fetch_count["p1"] = 1
  /\ all_detailed_product_data = <<>>

\* ---------------------------------------------------------------------
\* Claims about the pools at their ceilings (SpecPool)
\* ---------------------------------------------------------------------
PlpHolders == { t \in DOMAIN plp :
                  plp[t].pc \in {"new_page", "scrape", "handler", "close", "sleep"} }
PdpInFlight == { i \in DOMAIN pdp : pdp[i].pc = "fetch" }

\* C5: at most PLP_CONCURRENCY listing tasks are between new_page and the
\* end of their delay, at most PDP_CONCURRENCY detail fetches are in
\* flight; each semaphore counts its own pool only, and a task that has
\* left, on whatever path, has given its slot back.
C5_Ceilings ==
  /\ Cardinality(PlpHolders) <= PLP_CONCURRENCY
  /\ Cardinality(PdpInFlight) <= PDP_CONCURRENCY
  /\ \A t \in DOMAIN plp : (plp[t].page = "open" /\ ~Finished(plp[t])) => t \in PlpHolders
  /\ plp # <<>> => sem_plp = PLP_CONCURRENCY - Cardinality(PlpHolders)
  /\ pdp # <<>> => sem_pdp = PDP_CONCURRENCY - Cardinality(PdpInFlight)

\* the task that had to wait took the slot another task gave back: the pool
\* is full again, with its page open
C5_Witness ==
  /\ Len(plp) > PLP_CONCURRENCY
  /\ plp[Len(plp)].pc = "scrape" /\ plp[Len(plp)].page = "open"
  /\ Cardinality(PlpHolders) = PLP_CONCURRENCY
  /\ sem_plp = 0

====
